---- MODULE Spec2Model ----
(***************************************************************************)
(* The message-ingestion handlers of FileStream/bot/plugins/stream.py:     *)
(* private_receive_handler, channel_receive_handler, link_handler and the  *)
(* helpers process_single_file, process_multiple_files and                 *)
(* check_admin_privileges.  Every handler invocation is a cooperative task *)
(* that is suspended at each await; one action models one awaited call     *)
(* together with the synchronous code that follows it up to the next       *)
(* await.  The results of the awaited collaborators (bot_utils, Database,  *)
(* file_properties, the pyrogram client) are inputs drawn with \E.         *)
(***************************************************************************)
EXTENDS Integers, Sequences, FiniteSets, TLC

\* ------------------------------------------------------------- bounds ---
ChatLen == 2        \* positions of a fetched range that may hold a message
MaxWait == 2        \* largest FloodWait value (seconds) the platform sends
MaxAttempts == 3    \* cap of the per-call attempt counters

\* ------------------------------------------------- program constants ---
MIN_FILES == 1      \* stream.py:218  num_files < 1
MAX_FILES == 25     \* stream.py:218  num_files > 25

Tasks == {1, 2}     \* handler invocations scheduled by the dispatcher

\* ------------------------------------------------------- the command ---
\* message.text.strip().split() of a /link command: the command word and
\* the tokens after it, each token a sequence of characters.
Digits == <<"0", "1", "2", "3", "4", "5", "6", "7", "8", "9">>

ArgTokens ==
    { <<"0">>, <<"1">>, <<"2">>, <<"3">>, <<"2", "5">>, <<"2", "6">>,
      <<"-", "1">>, <<"0", "2">>, <<"a", "b">>, <<"2", "x">>, <<"-">> }

Commands ==
    {<< <<"/", "l">> >>} \cup { << <<"/", "l">>, a >> : a \in ArgTokens }
        \cup { << <<"/", "l">>, <<"2">>, <<"9">> >> }

IsDigit(c) == \E d \in 1..10 : Digits[d] = c

DigitVal(c) == (CHOOSE d \in 1..10 : Digits[d] = c) - 1

RECURSIVE DigitsVal(_)
DigitsVal(s) ==
    IF s = <<>> THEN 0
    ELSE 10 * DigitsVal(SubSeq(s, 1, Len(s) - 1)) + DigitVal(s[Len(s)])

\* int(token): the value, or ValueError for a token that is no decimal
\* integer literal with an optional sign.
ParseInt(tok) ==
    LET neg  == Len(tok) > 0 /\ tok[1] = "-"
        body == IF neg THEN Tail(tok) ELSE tok
    IN  IF body # <<>> /\ \A i \in 1..Len(body) : IsDigit(body[i])
        THEN [ok |-> TRUE,
              val |-> IF neg THEN 0 - DigitsVal(body) ELSE DigitsVal(body)]
        ELSE [ok |-> FALSE, val |-> 0]

\* num_files < 1 or num_files > 25 is refused.
ValidCountLoose(n) == n >= 0 /\ n <= MAX_FILES + 1
ValidCount(n) == ~(n < MIN_FILES \/ n > MAX_FILES)

\* Step 7 of link_handler: "ok" with num_files, or the refusal sent.
ParseCommand(command_parts) ==
    IF Len(command_parts) > 1
    THEN LET p == ParseInt(command_parts[2])
         IN  IF ~p.ok THEN [res |-> "not_int", num_files |-> 1]
             ELSE IF ~ValidCount(p.val)
                  THEN [res |-> "bad_range", num_files |-> p.val]
                  ELSE [res |-> "ok", num_files |-> p.val]
    ELSE [res |-> "ok", num_files |-> 1]

\* ------------------------------------------------------ control flow ---
\* The four awaited calls of every try block, in program order.
TryCalls == <<"add_file", "get_file_ids", "gen_link", "send">>

TryCallSet == {TryCalls[i] : i \in 1..Len(TryCalls)}

\* What an awaited platform or database call can do: return, raise
\* FloodWait, or raise another exception.
Outcomes == {"ok", "flood", "error"}

\* Steps 1-4 of private_receive_handler and link_handler: the check that
\* follows `check`, "return" when it denied, "process" when all passed.
AfterCheckNoReturn(check, passed, fsub) ==
    CASE check = "authorized" -> IF passed THEN "banned" ELSE "return"
      [] check = "banned"     -> "exist"
      [] check = "exist"      -> IF fsub THEN "joined" ELSE "process"
      [] check = "joined"     -> IF passed THEN "process" ELSE "return"

AfterCheckReply(check, passed, fsub) ==
    IF ~passed THEN "deny"
    ELSE CASE check = "authorized" -> "banned"
           [] check = "banned"     -> "exist"
           [] check = "exist"      -> IF fsub THEN "joined" ELSE "process"
           [] check = "joined"     -> "process"

AfterCheck(check, passed, fsub) ==
    IF ~passed THEN "return"
    ELSE CASE check = "authorized" -> "banned"
           [] check = "banned"     -> "exist"
           [] check = "exist"      -> IF fsub THEN "joined" ELSE "process"
           [] check = "joined"     -> "process"

\* The statement after a call of the try block that returned.
NextCallEditEarly(c) ==
    CASE c = "add_file"     -> "send"
      [] c = "send"         -> "get_file_ids"
      [] c = "get_file_ids" -> "gen_link"
      [] c = "gen_link"     -> "end"

NextCall(c) ==
    CASE c = "add_file"     -> "get_file_ids"
      [] c = "get_file_ids" -> "gen_link"
      [] c = "gen_link"     -> "send"
      [] c = "send"         -> "end"

\* except FloodWait: after asyncio.sleep(e.value) the handler reports to
\* ULOG_CHANNEL; the call `c` that was throttled is not issued again.
AfterSleepRetry(c) == c

AfterSleepRestart(c) == "add_file"

AfterSleep(c) == "report_flood"

\* Where the handler goes when a try statement is over (its body ran to the
\* end, or an except clause finished): the next message of a batch, or the
\* end of the handler.
AfterFloodReport(path) == IF path = "multiple" THEN "loop" ELSE "done"

AfterErrorReportRetry(path) == "add_file"

AfterErrorReport(path) == IF path = "multiple" THEN "loop" ELSE "done"

AfterTryBody(path) == IF path = "multiple" THEN "loop" ELSE "done"

\* processed_count += 1 stands after the reply of the try block.
CountsAtInsert(c, o) == c = "add_file" /\ o = "ok"

Counts(c, o) == c = "send" /\ o = "ok"

\* if msg and msg.media
ShouldIngestAnyMessage(msg) == msg.present

ShouldIngest(msg) == msg.present /\ msg.media

\* except RPCError around get_messages: reply and return.
AfterFetchContinue(o) == IF o = "raise" THEN "crashed" ELSE "loop"

AfterFetch(o) ==
    CASE o = "ok"        -> "loop"
      [] o = "rpc_error" -> "fetch_failed"
      [] o = "raise"     -> "crashed"

check_admin_privilegesFailOpen(status) ==
    IF status = "raise" THEN TRUE
    ELSE status \in {"administrator", "owner"}

\* check_admin_privileges: the bot's member status is administrator or
\* owner; any exception of the lookup gives False.
check_admin_privileges(status) ==
    IF status = "raise" THEN FALSE
    ELSE status \in {"administrator", "owner"}

\* Step 5 of link_handler: the admin check is made in groups and supergroups.
NeedsAdminCheck(chat_type) == chat_type \in {"group", "supergroup"}

\* await asyncio.sleep(e.value): a handler at `pc` keeps the event loop to
\* itself, so that no other handler runs.  The awaited sleep gives the loop
\* back, as every await does.
BlocksWhileSleeping(pc) == pc = "sleep"

Blocks(pc) == FALSE

\* ---------------------------------------------------------- registry ---
\* Database.add_file: the id of the new FileRecord.
NewIdReuse(registry) ==
    IF registry = <<>> THEN 1 ELSE registry[Len(registry)].id

NewId(registry) ==
    IF registry = <<>> THEN 1 ELSE registry[Len(registry)].id + 1

\* ------------------------------------------------------------ events ---
\* The Message an inbound event hands to its handler: the handler the
\* filters route it to, the chat type, what the message replies to and its
\* text split into words.  A receive-handler event carries media itself.
NoEvent ==
    [handler |-> "none", chat_type |-> "none", reply |-> "none",
     reply_id |-> 0, command_parts |-> <<>>]

PrivateEvent == [NoEvent EXCEPT !.handler = "private", !.chat_type = "private"]

ChannelEvent == [NoEvent EXCEPT !.handler = "channel", !.chat_type = "channel"]

LinkEvent(chat_type, reply, reply_id, command_parts) ==
    [handler |-> "link", chat_type |-> chat_type, reply |-> reply,
     reply_id |-> reply_id, command_parts |-> command_parts]

\* @FileStream.on_message(filters.command("link") & ~filters.private)
LinkChatTypes == {"group", "supergroup", "channel"}

\* The events of a run with one handler invocation.
SoloEvents ==
    {PrivateEvent, ChannelEvent}
      \cup { LinkEvent(ct, "media", 4, << <<"/", "l">>, <<"2">> >>) :
               ct \in LinkChatTypes }
      \cup { LinkEvent("supergroup", r, 0, << <<"/", "l">> >>) :
               r \in {"none", "text"} }
      \cup { LinkEvent("supergroup", "media", 4, c) : c \in Commands }
      \cup { LinkEvent("group", "media", 1, << <<"/", "l">>, <<"3">> >>) }

\* The events of the first invocation of a run with two invocations.
PairedEvents ==
    {PrivateEvent, ChannelEvent,
     LinkEvent("supergroup", "media", 4, << <<"/", "l">> >>),
     LinkEvent("channel", "media", 4, << <<"/", "l">>, <<"2">> >>)}

\* ------------------------------------------------------------- state ---
VARIABLES
    message,    \* message[t]: the Message handler invocation t is given
    tk,         \* tk[t]: the local state of handler invocation t
    db,         \* the FileRecords of the registry, in insertion order
    force_sub   \* Telegram.FORCE_SUB

vars == <<message, tk, db, force_sub>>

NoCalls == [c \in TryCallSet |-> 0]

\* The record kept of message number i of a handler: the state of the item
\* (fetched, skipped, running, ok, flood, error) and the FileRecords
\* inserted for it.
NewItem == [state |-> "fetched", inserts |-> 0]

NewTask ==
    [pc |-> "new", path |-> "none", checks |-> <<>>, admin |-> "none",
     status |-> "none", text |-> "none", num_files |-> 0, message_ids |-> <<>>,
     messages |-> <<>>, fetch |-> "none", idx |-> 0, processed_count |-> 0,
     inserted_id |-> 0, timer |-> 0, calls |-> NoCalls, throttled |-> "none",
     sleeps |-> 0, items |-> <<>>, sent |-> <<>>, reports |-> <<>>]

Init ==
    /\ message \in
         { [t \in Tasks |-> IF t = 1 THEN e ELSE NoEvent] : e \in SoloEvents }
           \cup
         { [t \in Tasks |-> IF t = 1 THEN e ELSE PrivateEvent] :
             e \in PairedEvents }
    /\ tk = [t \in Tasks |-> NewTask]
    /\ db = <<>>
    /\ force_sub \in BOOLEAN

\* ----------------------------------------------------------- helpers ---
\* The Message object of the event a receive handler was invoked for, and
\* of the message a /link command replies to.
MediaMessage(id) == [id |-> id, present |-> TRUE, media |-> TRUE]

MessageIdsAfterTarget(start_message_id, num_files) ==
    [j \in 1..num_files |-> start_message_id + j]

\* message_ids = list(range(start_message_id, end_message_id + 1))
MessageIds(start_message_id, num_files) ==
    LET end_message_id == start_message_id + num_files - 1
    IN  [j \in 1..(end_message_id + 1 - start_message_id) |->
            start_message_id + j - 1]

\* What client.get_messages can return for message_ids: one entry per id,
\* in order; an entry is an absent message, a message without media or a
\* message with media.  Only the first ChatLen ids can exist.
FetchResults(ids) ==
    LET Absent == [present |-> FALSE, media |-> FALSE]
        Kinds  == { Absent, [present |-> TRUE, media |-> FALSE],
                    [present |-> TRUE, media |-> TRUE] }
        m      == IF Len(ids) < ChatLen THEN Len(ids) ELSE ChatLen
    IN  { [j \in 1..Len(ids) |->
             LET kj == IF j <= m THEN k[j] ELSE Absent
             IN  [id |-> ids[j], present |-> kj.present, media |-> kj.media]] :
          k \in [1..m -> Kinds] }

BeginIngestResolveFirst(s, i) ==
    [s EXCEPT !.idx = i, !.pc = "get_file_ids", !.items[i].state = "running",
              !.calls = NoCalls, !.throttled = "none"]

\* The try statement of message number i of s.messages is entered.
BeginIngest(s, i) ==
    [s EXCEPT !.idx = i, !.pc = "add_file", !.items[i].state = "running",
              !.calls = NoCalls, !.throttled = "none"]

\* The try statement is left for pc2; "loop" is the next iteration of the
\* for statement.
Advance(s, pc2) ==
    LET s1 == [s EXCEPT !.calls = NoCalls, !.throttled = "none"]
    IN  IF pc2 = "loop" THEN [s1 EXCEPT !.pc = "loop", !.idx = @ + 1]
        ELSE [s1 EXCEPT !.pc = pc2]

Message(kind, n) == [kind |-> kind, n |-> n]

\* ----------------------------------------------------------- actions ---
\* The event loop can run handler invocation t: no other one blocks it.
EventLoopFree(t) == \A u \in Tasks \ {t} : ~Blocks(tk[u].pc)

\* The dispatcher invokes a handler for an inbound event.
Start(t) ==
    /\ tk[t].pc = "new"
    /\ EventLoopFree(t)
    /\ message[t].handler # "none"
    /\ tk' = [tk EXCEPT ![t] =
                [@ EXCEPT !.path = message[t].handler,
                          !.pc = IF message[t].handler = "channel"
                                 THEN "channel_banned" ELSE "authorized"]]
    /\ UNCHANGED <<message, db, force_sub>>

\* Steps 1-4 of private_receive_handler and link_handler: is_user_authorized,
\* is_user_banned, is_user_exist, is_user_joined.
Check(t, check) ==
    LET s == tk[t] IN
    /\ s.pc = check
    /\ EventLoopFree(t)
    /\ s.path \in {"private", "link"}
    /\ \E r \in IF check = "exist" THEN {"pass", "raise"}
                ELSE {"pass", "deny", "raise"} :
         LET nxt == IF r = "raise" THEN "crashed"
                    ELSE AfterCheck(check, r = "pass", force_sub)
             s1  == [s EXCEPT !.checks =
                              Append(@, [name |-> check, result |-> r])]
         IN  tk' = [tk EXCEPT ![t] =
                CASE nxt = "return" -> [s1 EXCEPT !.pc = "done"]
                  [] nxt = "process" /\ s.path = "private" ->
                        BeginIngest([s1 EXCEPT !.messages = <<MediaMessage(0)>>,
                                               !.items = <<NewItem>>], 1)
                  [] nxt = "process" /\ s.path = "link" ->
                        [s1 EXCEPT !.pc = "admin"]
                  [] OTHER -> [s1 EXCEPT !.pc = nxt]]
    /\ UNCHANGED <<message, db, force_sub>>

Authorized(t) == Check(t, "authorized")

Banned(t) == Check(t, "banned")

Exist(t) == Check(t, "exist")

Joined(t) == Check(t, "joined")

\* Step 1 of channel_receive_handler: is_channel_banned.
ChannelBanned(t) ==
    LET s == tk[t] IN
    /\ s.pc = "channel_banned"
    /\ EventLoopFree(t)
    /\ \E r \in {"pass", "deny", "raise"} :
         tk' = [tk EXCEPT ![t] =
                  [s EXCEPT !.checks = Append(@, [name |-> "channel_banned",
                                                   result |-> r]),
                            !.pc = CASE r = "pass" -> "channel_exist"
                                     [] r = "deny" -> "done"
                                     [] r = "raise" -> "crashed"]]
    /\ UNCHANGED <<message, db, force_sub>>

\* Step 2 of channel_receive_handler: is_channel_exist, then the try block.
ChannelExist(t) ==
    LET s == tk[t] IN
    /\ s.pc = "channel_exist"
    /\ EventLoopFree(t)
    /\ \E r \in {"pass", "raise"} :
         LET s1 == [s EXCEPT !.checks = Append(@, [name |-> "channel_exist",
                                                     result |-> r])]
         IN  tk' = [tk EXCEPT ![t] =
                IF r = "raise" THEN [s1 EXCEPT !.pc = "crashed"]
                ELSE BeginIngest([s1 EXCEPT !.messages = <<MediaMessage(0)>>,
                                            !.items = <<NewItem>>], 1)]
    /\ UNCHANGED <<message, db, force_sub>>

\* Step 5 of link_handler: in a group or supergroup the bot must be admin.
LinkAdmin(t) ==
    LET s == tk[t]
        chat_type == message[t].chat_type
    IN
    /\ s.pc = "admin"
    /\ EventLoopFree(t)
    /\ \E status \in {"administrator", "owner", "member", "raise"} :
         /\ (~NeedsAdminCheck(chat_type) => status = "member")
         /\ tk' = [tk EXCEPT ![t] =
              IF NeedsAdminCheck(chat_type)
              THEN IF check_admin_privileges(status)
                   THEN [s EXCEPT !.admin = "yes", !.status = status,
                                  !.pc = "parse"]
                   ELSE [s EXCEPT !.admin = "no", !.status = status,
                                  !.pc = "deny", !.text = "need_admin"]
              ELSE [s EXCEPT !.admin = "skipped", !.pc = "parse"]]
    /\ UNCHANGED <<message, db, force_sub>>

\* Steps 6-8 of link_handler: the reply target, the count argument, and the
\* call of process_single_file or process_multiple_files up to its first
\* await.
LinkParse(t) ==
    LET s == tk[t]
        reply == message[t].reply
        reply_id == message[t].reply_id
        p == ParseCommand(message[t].command_parts)
        refuse(txt) == [s EXCEPT !.pc = "deny", !.text = txt]
    IN
    /\ s.pc = "parse"
    /\ EventLoopFree(t)
    /\ tk' = [tk EXCEPT ![t] =
         CASE reply = "none" -> refuse("need_reply")
           [] reply = "text" -> refuse("no_file")
           [] reply = "media" /\ p.res # "ok" ->
                [refuse(p.res) EXCEPT !.num_files = p.num_files]
           [] reply = "media" /\ p.res = "ok" /\ p.num_files = 1 ->
                BeginIngest(
                   [s EXCEPT !.path = "single", !.num_files = 1,
                             !.messages = <<MediaMessage(reply_id)>>,
                             !.items = <<NewItem>>], 1)
           [] OTHER ->
                [s EXCEPT !.path = "multiple",
                          !.num_files = p.num_files,
                          !.message_ids = MessageIds(reply_id, p.num_files),
                          !.pc = "get_messages"]]
    /\ UNCHANGED <<message, db, force_sub>>

\* message.reply_text of a refusal (steps 5-7 of link_handler, and the
\* except RPCError clause of process_multiple_files), then return.
Deny(t) ==
    LET s == tk[t] IN
    /\ s.pc = "deny"
    /\ EventLoopFree(t)
    /\ \E o \in {"ok", "raise"} :
         tk' = [tk EXCEPT ![t] =
                  IF o = "ok"
                  THEN [s EXCEPT !.sent = Append(@, Message(s.text, 0)),
                                 !.pc = "done"]
                  ELSE [s EXCEPT !.pc = "crashed"]]
    /\ UNCHANGED <<message, db, force_sub>>

\* client.get_messages of process_multiple_files.
GetMessages(t) ==
    LET s == tk[t] IN
    /\ s.pc = "get_messages"
    /\ EventLoopFree(t)
    /\ \E o \in {"ok", "rpc_error", "raise"} :
       \E msgs \in FetchResults(s.message_ids) :
         LET nxt == AfterFetch(o)
             s1  == IF o = "ok"
                    THEN [s EXCEPT !.fetch = "ok", !.messages = msgs,
                                   !.items = [j \in 1..Len(msgs) |-> NewItem]]
                    ELSE [s EXCEPT !.fetch = IF o = "rpc_error" THEN "failed"
                                             ELSE "raised"]
         IN  /\ (o # "ok" => \A j \in 1..Len(msgs) : ~msgs[j].present)
             /\ tk' = [tk EXCEPT ![t] =
                  CASE nxt = "loop" ->
                         [s1 EXCEPT !.pc = "loop", !.idx = 1,
                                    !.processed_count = 0]
                    [] nxt = "fetch_failed" ->
                         [s1 EXCEPT !.pc = "deny", !.text = "fetch_failed"]
                    [] OTHER -> [s1 EXCEPT !.pc = nxt]]
    /\ UNCHANGED <<message, db, force_sub>>

\* for msg in messages: if msg and msg.media
Loop(t) ==
    LET s == tk[t] IN
    /\ s.pc = "loop"
    /\ EventLoopFree(t)
    /\ tk' = [tk EXCEPT ![t] =
         IF s.idx > Len(s.messages)
         THEN [s EXCEPT !.pc = "summary", !.text = "summary"]
         ELSE IF ShouldIngest(s.messages[s.idx]) THEN BeginIngest(s, s.idx)
         ELSE [s EXCEPT !.items[s.idx].state = "skipped", !.idx = @ + 1]]
    /\ UNCHANGED <<message, db, force_sub>>

\* One awaited call of a try block (db.add_file, get_file_ids, gen_link,
\* message.reply_text / bot.edit_message_reply_markup), the synchronous code
\* up to the next await, and the entry of the except clause when it raises.
\* In channel_receive_handler the except FloodWait clause reads w.x, which
\* the installed pyrogram may not define: has_x is that build-dependent fact.
Call(t, c) ==
    LET s  == tk[t]
        it == s.items[s.idx]
    IN
    /\ s.pc = c
    /\ EventLoopFree(t)
    /\ s.calls[c] < MaxAttempts
    /\ \E o \in Outcomes :
       \E T \in 1..MaxWait :
       \E has_x \in BOOLEAN :
         LET id  == NewId(db)
             ins == c = "add_file" /\ o = "ok"
             it1 == [it EXCEPT !.inserts = IF ins THEN @ + 1 ELSE @]
             s1  == [s EXCEPT
                       !.calls[c] = @ + 1,
                       !.inserted_id = IF ins THEN id ELSE @,
                       !.processed_count =
                           IF s.path = "multiple" /\ Counts(c, o)
                           THEN @ + 1 ELSE @,
                       !.sent = IF c = "send" /\ o = "ok"
                                THEN Append(@, Message(
                                        IF s.path = "channel" THEN "markup"
                                        ELSE "link", s.inserted_id))
                                ELSE @]
         IN
         /\ (o # "flood" => T = 1)
         /\ (o # "flood" \/ s.path # "channel" => has_x)
         /\ db' = IF ins THEN Append(db, [id |-> id, by |-> t, item |-> s.idx])
                  ELSE db
         /\ tk' = [tk EXCEPT ![t] =
              CASE o = "ok" /\ NextCall(c) = "end" ->
                     Advance([s1 EXCEPT !.items[s.idx] =
                                 [it1 EXCEPT !.state = "ok"]],
                             AfterTryBody(s.path))
                [] o = "ok" /\ NextCall(c) # "end" ->
                     [s1 EXCEPT !.items[s.idx] = it1, !.pc = NextCall(c)]
                [] o = "flood" /\ has_x ->
                     [s1 EXCEPT !.items[s.idx] = [it1 EXCEPT !.state = "flood"],
                                !.throttled = c, !.sleeps = @ + 1,
                                !.pc = "sleep", !.timer = T]
                [] o = "flood" /\ ~has_x ->
                     [s1 EXCEPT !.items[s.idx] = [it1 EXCEPT !.state = "flood"],
                                !.throttled = c, !.pc = "crashed"]
                [] o = "error" ->
                     [s1 EXCEPT !.items[s.idx] = [it1 EXCEPT !.state = "error"],
                                !.pc = "report_error"]]
    /\ UNCHANGED <<message, force_sub>>

AddFile(t) == Call(t, "add_file")

GetFileIds(t) == Call(t, "get_file_ids")

GenLink(t) == Call(t, "gen_link")

Send(t) == Call(t, "send")

\* One second passes for every handler suspended in asyncio.sleep.
Tick ==
    /\ \E t \in Tasks : tk[t].pc = "sleep" /\ tk[t].timer > 0
    /\ tk' = [t \in Tasks |->
                IF tk[t].pc = "sleep" /\ tk[t].timer > 0
                THEN [tk[t] EXCEPT !.timer = @ - 1] ELSE tk[t]]
    /\ UNCHANGED <<message, db, force_sub>>

\* asyncio.sleep(e.value) returns once e.value seconds have passed.
Wake(t) ==
    LET s == tk[t] IN
    /\ s.pc = "sleep"
    /\ EventLoopFree(t)
    /\ s.timer = 0
    /\ tk' = [tk EXCEPT ![t].pc = AfterSleep(s.throttled)]
    /\ UNCHANGED <<message, db, force_sub>>

\* send_message(ULOG_CHANNEL, ...) of an except clause; an exception it
\* raises leaves the handler.
Report(t, kind) ==
    LET s == tk[t] IN
    /\ s.pc = kind
    /\ EventLoopFree(t)
    /\ \E o \in {"ok", "raise"} :
         LET s1 == [s EXCEPT !.reports =
                       Append(@, [kind |-> kind, item |-> s.idx,
                                  delivered |-> o = "ok"])]
         IN  tk' = [tk EXCEPT ![t] =
                IF o = "raise" THEN [s1 EXCEPT !.pc = "crashed"]
                ELSE Advance(s1, IF kind = "report_flood"
                                 THEN AfterFloodReport(s.path)
                                 ELSE AfterErrorReport(s.path))]
    /\ UNCHANGED <<message, db, force_sub>>

ReportFlood(t) == Report(t, "report_flood")

ReportError(t) == Report(t, "report_error")

\* The closing reply_text of process_multiple_files.
Summary(t) ==
    LET s == tk[t] IN
    /\ s.pc = "summary"
    /\ EventLoopFree(t)
    /\ \E o \in {"ok", "raise"} :
         tk' = [tk EXCEPT ![t] =
                  IF o = "ok"
                  THEN [s EXCEPT !.sent =
                            Append(@, Message("summary", s.processed_count)),
                                 !.pc = "done"]
                  ELSE [s EXCEPT !.pc = "crashed"]]
    /\ UNCHANGED <<message, db, force_sub>>

\* One step of handler invocation t.
HandlerStep(t) ==
    \/ Start(t)
    \/ Authorized(t) \/ Banned(t) \/ Exist(t) \/ Joined(t)
    \/ ChannelBanned(t) \/ ChannelExist(t)
    \/ LinkAdmin(t) \/ LinkParse(t) \/ Deny(t)
    \/ GetMessages(t) \/ Loop(t)
    \/ AddFile(t) \/ GetFileIds(t) \/ GenLink(t) \/ Send(t)
    \/ Wake(t) \/ ReportFlood(t) \/ ReportError(t) \/ Summary(t)

Next ==
    \/ \E t \in Tasks : HandlerStep(t)
    \/ Tick

Spec == Init /\ [][Next]_vars

\* The event loop runs every handler that is ready, every awaited call
\* returns or raises, and time passes: a step that stays possible is taken.
FairSpec == Spec /\ WF_vars(Next)

\* ------------------------------------------------------- observations ---
Finished(t) == tk[t].pc \in {"done", "crashed"}

\* The FileRecords handler invocation t inserted for its message number i.
RecordsOf(t, i) == {k \in 1..Len(db) : db[k].by = t /\ db[k].item = i}

RecordsBy(t) == {k \in 1..Len(db) : db[k].by = t}

\* The preconditions in the order the specification gives them.
PreconditionOrder == <<"authorized", "banned", "exist", "joined">>

Denied(t) ==
    \E i \in 1..Len(tk[t].checks) : tk[t].checks[i].result = "deny"

\* No ingestion step was taken for the event of t.
NothingIngested(t) ==
    /\ RecordsBy(t) = {}
    /\ tk[t].items = <<>>
    /\ tk[t].calls = NoCalls
    /\ tk[t].inserted_id = 0
    /\ tk[t].fetch = "none"
    /\ tk[t].message_ids = <<>>

\* The replies of kind `kind` the caller of t received.
SentOf(t, kind) ==
    {k \in 1..Len(tk[t].sent) : tk[t].sent[k].kind = kind}

\* --------------------------------------------------------------- C1 ---
\* C1: in private_receive_handler and link_handler the preconditions are
\* evaluated in the order authorized, banned, (existence registration,)
\* joined, the last one only when FORCE_SUB is set; only the last evaluated
\* check can have failed, and once one has denied the event no registry
\* insert, handle resolution, link generation or message fetch is made for
\* it; an ingestion is started only when every precondition passed.
C1_PreconditionsShortCircuit ==
    \A t \in Tasks :
      message[t].handler \in {"private", "link"} =>
        LET ch == tk[t].checks IN
        /\ Len(ch) <= Len(PreconditionOrder)
        /\ \A i \in 1..Len(ch) :
             /\ ch[i].name = PreconditionOrder[i]
             /\ (i < Len(ch) => ch[i].result = "pass")
             /\ (ch[i].name = "joined" => force_sub)
        /\ (Denied(t) => NothingIngested(t) /\ tk[t].pc = "done")
        /\ (~NothingIngested(t) \/ tk[t].admin # "none" =>
              /\ Len(ch) = (IF force_sub THEN 4 ELSE 3)
              /\ \A i \in 1..Len(ch) : ch[i].result = "pass")

\* A banned sender was turned away after the authorization check passed.
C1_Witness ==
    \E t \in Tasks :
      /\ Len(tk[t].checks) = 2
      /\ tk[t].checks[1].result = "pass"
      /\ tk[t].checks[2] = [name |-> "banned", result |-> "deny"]
      /\ tk[t].pc = "done"

\* --------------------------------------------------------------- C2 ---
\* C2 (as claimed): when handle resolution or the reply of an ingestion of
\* private_receive_handler or link_handler is throttled with wait T, the
\* step the ingestion takes when its sleep is over issues that same call
\* again.
C2_RetryAfterSleep ==
    [][\A t \in Tasks :
         (/\ message[t].handler \in {"private", "link"}
          /\ tk[t].throttled \in {"get_file_ids", "send"}
          /\ tk[t].pc = "sleep" /\ tk'[t].pc # "sleep") =>
            tk'[t].pc = tk[t].throttled]_vars

\* --------------------------------------------------------------- C3 ---
\* Within one ingestion no call is attempted more than 2 times; every
\* throttle sleep belongs to an item of its own, so a handler sleeps at most
\* once per item it started and a batch of n items sleeps at most n times.
AttemptsBounded ==
    \A t \in Tasks :
      LET started == {i \in 1..Len(tk[t].items) :
                        tk[t].items[i].state \notin {"fetched", "skipped"}}
          flooded == {i \in 1..Len(tk[t].items) :
                        tk[t].items[i].state = "flood"}
      IN  /\ \A c \in TryCallSet : tk[t].calls[c] <= 2
          /\ tk[t].sleeps <= Cardinality(flooded)
          /\ Cardinality(flooded) <= Cardinality(started)
          /\ tk[t].path = "multiple" => tk[t].sleeps <= tk[t].num_files
          /\ tk[t].path # "multiple" => tk[t].sleeps <= 1

\* Every handler that was invoked has returned or was left by an exception.
AllFinished == \A t \in Tasks : message[t].handler # "none" => Finished(t)

\* C3: however often the platform throttles, no call of an ingestion is
\* attempted more than 2 times and a batch of n items sleeps at most n
\* times, and every handler comes to its end instead of looping.
C3_BoundedAttemptsAndFinishes == []AttemptsBounded /\ <>[]AllFinished

\* A batch in which every item was throttled has come to its end.
C3_Witness ==
    \E t \in Tasks :
      /\ tk[t].path = "multiple"
      /\ tk[t].sleeps = 2
      /\ tk[t].pc = "done"

\* --------------------------------------------------------------- C4 ---
\* The count argument of the command of t is no integer or lies outside
\* 1..25.
BadCountArgument(t) ==
    /\ message[t].handler = "link"
    /\ Len(message[t].command_parts) > 1
    /\ LET p == ParseInt(message[t].command_parts[2])
       IN  ~p.ok \/ p.val < 1 \/ p.val > 25

\* C4: a /link command whose count argument is no integer or lies outside
\* 1..25 never reaches process_single_file or process_multiple_files: no
\* get_messages, no registry insert, no count taken into range; when the
\* handler gets as far as the argument it issues the refusal reply, which is
\* the only reply the caller receives.
C4_BadCountRejected ==
    \A t \in Tasks :
      BadCountArgument(t) =>
        /\ NothingIngested(t)
        /\ tk[t].path \in {"none", "link"}
        /\ tk[t].pc \notin {"get_messages", "loop", "summary"} \cup TryCallSet
        /\ (tk[t].admin \in {"yes", "skipped"}
              /\ message[t].reply = "media"
              /\ tk[t].pc \notin {"admin", "parse"} =>
                /\ tk[t].text =
                     (IF ParseInt(message[t].command_parts[2]).ok
                      THEN "bad_range" ELSE "not_int")
                /\ tk[t].pc \in {"deny", "done", "crashed"}
                /\ (tk[t].pc = "done" =>
                      tk[t].sent = <<Message(tk[t].text, 0)>>)
                /\ (tk[t].pc # "done" => tk[t].sent = <<>>))

\* "/link 26" was answered with the range refusal.
C4_Witness ==
    \E t \in Tasks :
      /\ message[t].command_parts = << <<"/", "l">>, <<"2", "6">> >>
      /\ tk[t].pc = "done"
      /\ tk[t].sent = <<Message("bad_range", 0)>>
      /\ db = <<>>

\* --------------------------------------------------------------- C5 ---
\* Message number i of the fetched range of t is present and carries media.
MediaBearing(t, i) == tk[t].messages[i].present /\ tk[t].messages[i].media

\* C5 (as claimed): when a batch has come to its end, every present,
\* media-bearing message that follows an item whose ingestion failed
\* (throttled or another error) has had its own ingestion attempt.
C5_LaterItemsAttempted ==
    \A t \in Tasks :
      tk[t].path = "multiple" /\ Finished(t) =>
        \A i, j \in 1..Len(tk[t].items) :
          (/\ i < j
           /\ tk[t].items[i].state \in {"flood", "error"}
           /\ MediaBearing(t, j)) => tk[t].items[j].state # "fetched"

\* --------------------------------------------------------------- C6 ---
\* C6 (as claimed): a batch whose range was fetched does not end before it
\* has issued the "Processed k file(s)" summary reply.
C6_EndsWithSummary ==
    \A t \in Tasks :
      tk[t].path = "multiple" /\ tk[t].fetch = "ok" /\ Finished(t) =>
        tk[t].text = "summary"

\* --------------------------------------------------------------- C7 ---
\* C7: in a batch processed_count is the number of link replies delivered,
\* which is the number of present, media-bearing messages whose ingestion
\* ran to its end; a message that is absent or carries no media is skipped:
\* no FileRecord, no report to ULOG_CHANNEL, no failure; the summary reports
\* that count.
C7_ProcessedCount ==
    \A t \in Tasks :
      tk[t].path = "multiple" /\ tk[t].fetch = "ok" =>
        LET its  == tk[t].items
            done == {i \in 1..Len(its) : its[i].state = "ok"}
        IN  /\ Len(its) = tk[t].num_files
            /\ tk[t].processed_count = Cardinality(SentOf(t, "link"))
            /\ tk[t].processed_count = Cardinality(done)
            /\ \A i \in done : MediaBearing(t, i) /\ i < tk[t].idx
            /\ \A i \in 1..Len(its) :
                 ~MediaBearing(t, i) =>
                   /\ its[i].state = (IF i < tk[t].idx THEN "skipped"
                                      ELSE "fetched")
                   /\ its[i].inserts = 0
                   /\ RecordsOf(t, i) = {}
                   /\ \A k \in 1..Len(tk[t].reports) :
                        tk[t].reports[k].item # i
            /\ (tk[t].pc = "done" =>
                  /\ tk[t].sent[Len(tk[t].sent)] =
                        Message("summary", Cardinality(done))
                  /\ \A i \in 1..Len(its) :
                        its[i].state \in {"skipped", "ok", "flood", "error"})

\* "/link 3": a message without media, a message with media and an absent
\* message, no error; the summary says 1.
C7_Witness ==
    \E t \in Tasks :
      /\ tk[t].pc = "done"
      /\ tk[t].num_files = 3
      /\ Len(tk[t].messages) = 3
      /\ tk[t].messages[1].present /\ ~tk[t].messages[1].media
      /\ ~tk[t].messages[3].present
      /\ tk[t].items[1].state = "skipped"
      /\ tk[t].items[2].state = "ok"
      /\ tk[t].items[3].state = "skipped"
      /\ tk[t].reports = <<>>
      /\ tk[t].processed_count = 1
      /\ Len(db) = 1

C9_IdsIncrease ==
    /\ \A i, j \in 1..Len(db) : i < j => db[i].id < db[j].id
    /\ \A t \in Tasks :
         tk[t].inserted_id # 0 =>
           \E k \in RecordsBy(t) :
             /\ db[k].id = tk[t].inserted_id
             /\ \A h \in 1..(k - 1) : db[h].id < tk[t].inserted_id
    /\ \A t, u \in Tasks :
         t # u /\ tk[t].inserted_id # 0 => tk[t].inserted_id # tk[u].inserted_id

\* The insert of the second invocation fell between two inserts of a batch.
C9_Witness ==
    /\ Len(db) = 3
    /\ db[1].by = 1 /\ db[2].by = 2 /\ db[3].by = 1
    /\ tk[2].pc = "get_file_ids"

\* -------------------------------------------------------------- C10 ---
\* C10: an ingestion inserts at most one FileRecord, the registry holds
\* exactly the records the ingestions inserted, and an ingestion that ran to
\* its end (its link was sent) has inserted exactly one.
C10_OneInsertPerIngestion ==
    \A t \in Tasks :
      /\ \A i \in 1..Len(tk[t].items) :
           /\ tk[t].items[i].inserts <= 1
           /\ Cardinality(RecordsOf(t, i)) = tk[t].items[i].inserts
           /\ (tk[t].items[i].state = "ok" => tk[t].items[i].inserts = 1)
      /\ Cardinality(SentOf(t, "link")) + Cardinality(SentOf(t, "markup"))
            <= Cardinality(RecordsBy(t))

\* A /link without count has answered with the link of its one record.
C10_Witness ==
    \E t \in Tasks :
      /\ tk[t].path = "single"
      /\ tk[t].pc = "done"
      /\ tk[t].items[1].state = "ok"
      /\ Cardinality(RecordsBy(t)) = 1
      /\ Len(tk[t].sent) = 1

\* ------------------------------------------------------------------ C11 ---
\* The ingestion in progress in handler invocation t has inserted its record
\* and holds the id the registry returned for it.
InsertReturned(t) ==
    LET s == tk[t] IN
    /\ s.idx \in 1..Len(s.items)
    /\ s.calls["add_file"] > 0
    /\ s.inserted_id > 0
    /\ \E k \in RecordsOf(t, s.idx) : db[k].id = s.inserted_id

\* C11: in every handler (private, channel, single /link, batch /link),
\* whenever handle resolution (get_file_ids) or link generation (gen_link) is
\* about to be called or has been called for the ingestion in progress, the
\* registry insert of that ingestion has already returned and its id is the
\* one held in inserted_id; neither call is made without it.
C11_InsertBeforeResolveAndLink ==
    \A t \in Tasks :
      LET s == tk[t] IN
      (\/ s.pc \in {"get_file_ids", "gen_link"}
       \/ s.calls["get_file_ids"] > 0
       \/ s.calls["gen_link"] > 0)
      => InsertReturned(t)

\* The second message of a batch is at its link generation, with its own
\* record inserted after the record of the first message.
C11_Witness ==
    \E t \in Tasks :
      /\ tk[t].path = "multiple"
      /\ tk[t].idx = 2
      /\ tk[t].pc = "gen_link"
      /\ tk[t].calls["get_file_ids"] = 1
      /\ tk[t].inserted_id = 2
      /\ InsertReturned(t)

\* ------------------------------------------------------------------ C12 ---
\* Handler invocation t is in the except clause of an ingestion whose insert
\* returned and whose handle resolution (get_file_ids) then failed.
ResolveFailed(t) ==
    LET s == tk[t] IN
    /\ s.path \in {"private", "single"}
    /\ s.pc = "report_error"
    /\ s.calls["get_file_ids"] > 0
    /\ s.calls["gen_link"] = 0
    /\ InsertReturned(t)

\* C12: a failure of handle resolution after a successful insert is not
\* fatal to the ingestion: when the handler leaves the except clause the
\* record is still in the registry unaltered, and the ingestion either has
\* sent the reference of that record to the sender or goes on with it
\* (handle resolution attempted again, link generation, reply).
C12_ResolveFailureNonFatal ==
    [][\A t \in Tasks :
         (ResolveFailed(t) /\ tk'[t].pc # tk[t].pc)
         => /\ \A k \in 1..Len(db) : Len(db') >= k /\ db'[k] = db[k]
            /\ \/ \E j \in 1..Len(tk'[t].sent) :
                    tk'[t].sent[j] = Message("link", tk[t].inserted_id)
               \/ tk'[t].pc \in {"get_file_ids", "gen_link", "send"}]_vars

\* ------------------------------------------------------------------ C13 ---
\* Handler invocation u has an event to handle and its next statement is
\* not the end of an unexpired asyncio.sleep of its own.
HasWork(u) ==
    /\ message[u].handler # "none"
    /\ ~Finished(u)
    /\ ~(tk[u].pc = "sleep" /\ tk[u].timer > 0)

\* C13: while the ingestion of one handler invocation is suspended in its
\* throttle sleep, every other invocation that has work left can take its
\* next step (start, precondition check, insert, reply, ...): nothing held
\* by the sleeper keeps the handler of an unrelated event from running to
\* its reply before the sleeper resumes.
C13_SleepDelaysOnlySleeper ==
    \A t \in Tasks : \A u \in Tasks \ {t} :
      (tk[t].pc = "sleep" /\ HasWork(u)) => ENABLED HandlerStep(u)

\* The first invocation inserted record 1 and has been asleep since its
\* throttled handle resolution, none of its seconds having passed; the
\* handler of the other event inserted record 2 after it and has sent its
\* link.
C13_Witness ==
    /\ tk[1].pc = "sleep"
    /\ tk[1].throttled = "get_file_ids"
    /\ tk[1].timer = MaxWait
    /\ tk[2].pc = "done"
    /\ Len(db) = 2
    /\ db[1].by = 1
    /\ db[2].by = 2
    /\ tk[2].sent = <<Message("link", 2)>>

\* ------------------------------------------------------------------ C14 ---
\* The replies that explain a refusal of /link which is not about its count
\* argument: the bot is not an administrator of the group, and the command
\* does not reply to a message that carries a file (no reply target at all,
\* or a target without media).
DenialReplies == {"need_admin", "need_reply", "no_file"}

\* The replies that explain a rejected count argument.
ValidationReplies == {"bad_range", "not_int"}

\* C14: a denial by the authorization, ban or required-channel check ends
\* the handler normally (no exception escapes), with no reply sent, nothing
\* reported and nothing ingested.  A reply that refuses an event before any
\* ingestion step is therefore never about one of those checks: it is the
\* not-an-administrator reply of /link (sent only when the admin check
\* failed), the reply-target reply of /link (sent only when the command has
\* no reply target with a file), or the answer to a bad count argument.
C14_DenialsAreSilent ==
    \A t \in Tasks :
      LET s == tk[t] IN
      /\ Denied(t) =>
           /\ s.pc = "done"
           /\ s.sent = <<>>
           /\ s.reports = <<>>
           /\ s.text = "none"
           /\ NothingIngested(t)
      /\ (NothingIngested(t) /\ s.sent # <<>>) =>
           /\ Len(s.sent) = 1
           /\ s.sent[1].kind \in DenialReplies \cup ValidationReplies
           /\ message[t].handler = "link"
           /\ s.sent[1].kind = "need_admin" => s.admin = "no"
           /\ s.sent[1].kind \in {"need_reply", "no_file"} =>
                message[t].reply # "media" /\ s.admin # "no"
           /\ s.sent[1].kind \in ValidationReplies =>
                message[t].reply = "media" /\ s.admin # "no"

\* A /link command whose sender passed the authorization and ban checks and
\* was denied by the required-channel check: the handler has returned
\* without a reply.
C14_Witness ==
    \E t \in Tasks :
      /\ message[t].handler = "link"
      /\ force_sub
      /\ Len(tk[t].checks) = 4
      /\ tk[t].checks[4] = [name |-> "joined", result |-> "deny"]
      /\ tk[t].pc = "done"
      /\ tk[t].sent = <<>>

\* ------------------------------------------------------------------ C15 ---
\* The reports of kind `kind` handler invocation t emitted to ULOG_CHANNEL
\* for its message number i.
ReportsOf(t, i, kind) ==
    {k \in 1..Len(tk[t].reports) :
        tk[t].reports[k].kind = kind /\ tk[t].reports[k].item = i}

\* C15: an ingestion that passed the preconditions and failed with an
\* exception other than FloodWait emits exactly one report to ULOG_CHANNEL
\* (none yet while the handler is at the send_message of the except clause),
\* no call of its try block is issued a second time and no second record is
\* inserted for it, and the handler ends with an unhandled exception because
\* of it exactly when the send_message of the report raised.
C15_ErrorReportedOnceNoRetry ==
    \A t \in Tasks :
      \A i \in 1..Len(tk[t].items) :
        LET s == tk[t]
            r == ReportsOf(t, i, "report_error")
            pending == s.idx = i /\ s.pc = "report_error"
        IN  s.items[i].state = "error" =>
              /\ ~Denied(t)
              /\ Cardinality(r) = IF pending THEN 0 ELSE 1
              /\ ReportsOf(t, i, "report_flood") = {}
              /\ s.items[i].inserts <= 1
              /\ Cardinality(RecordsOf(t, i)) = s.items[i].inserts
              /\ s.idx = i => \A c \in TryCallSet : s.calls[c] <= 1
              /\ \A k \in r :
                   s.reports[k].delivered <=> ~(s.idx = i /\ s.pc = "crashed")

\* A batch whose first message failed after its insert: the failure was
\* reported once, the report was delivered, and the handler went on to
\* ingest the second message and to finish.
C15_Witness ==
    \E t \in Tasks :
      /\ tk[t].path = "multiple"
      /\ tk[t].pc = "done"
      /\ Len(tk[t].items) >= 2
      /\ tk[t].items[1] = [state |-> "error", inserts |-> 1]
      /\ tk[t].items[2].state = "ok"
      /\ tk[t].reports =
           <<[kind |-> "report_error", item |-> 1, delivered |-> TRUE]>>

\* ------------------------------------------------------------------ C16 ---
\* The count a /link command asks for: its first argument read as a decimal
\* integer, 1 when there is none.
RequestedCount(t) ==
    LET command_parts == message[t].command_parts
    IN  IF Len(command_parts) > 1 THEN ParseInt(command_parts[2]).val ELSE 1

\* The ids a..a+n-1 in increasing order.
ContiguousRange(a, n) == [j \in 1..n |-> a + (j - 1)]

\* What C16 says of every state of a /link command that replies to message
\* a and is being processed with count n.
RangeConsidered(t) ==
    LET s == tk[t]
        a == message[t].reply_id
        n == RequestedCount(t)
    IN  s.path \in {"single", "multiple"} =>
          /\ n \in MIN_FILES..MAX_FILES
          /\ s.num_files = n
          /\ (s.path = "multiple") <=> (n >= 2)
          /\ s.path = "multiple" => s.message_ids = ContiguousRange(a, n)
          /\ s.path = "single" => s.fetch = "none"
          /\ s.items # <<>> =>
               /\ Len(s.messages) = n
               /\ Len(s.items) = n
               /\ \A j \in 1..n : s.messages[j].id = a + (j - 1)
          /\ \A k \in RecordsBy(t) :
               /\ db[k].item \in 1..Len(s.messages)
               /\ s.messages[db[k].item].id \in a..(a + n - 1)

\* C16: for a /link command replying to message id a with count n in 1..25
\* (1 when omitted), the messages considered for ingestion are exactly those
\* of ids a..a+n-1, in that order, and every record the command inserts is of
\* a message of that range; for n >= 2 the whole range is requested in one
\* get_messages call: once the fetch has an outcome, neither the requested
\* ids nor the fetched messages change again.
C16_ContiguousRangeOneFetch ==
    /\ [](\A t \in Tasks : RangeConsidered(t))
    /\ [][\A t \in Tasks :
            tk[t].fetch # "none" =>
              /\ tk'[t].fetch = tk[t].fetch
              /\ tk'[t].message_ids = tk[t].message_ids
              /\ tk'[t].messages = tk[t].messages]_vars

\* "/link 3" in reply to message 1: ids 1, 2, 3 were fetched together and
\* the messages 1 and 2, the ones that exist, have been ingested.
C16_Witness ==
    \E t \in Tasks :
      /\ message[t].reply_id = 1
      /\ tk[t].num_files = 3
      /\ tk[t].message_ids = <<1, 2, 3>>
      /\ tk[t].fetch = "ok"
      /\ {db[k].item : k \in RecordsBy(t)} = {1, 2}
      /\ tk[t].pc = "done"

\* ------------------------------------------------------------------ C17 ---
\* The fetched messages of batch t that exist and carry media.
MediaBearingFetched(t) ==
    {i \in 1..Len(tk[t].messages) : MediaBearing(t, i)}

\* C17: at every point of a batch with count n,
\*   processed_count <= records inserted by the batch
\*                   <= fetched messages that exist and carry media
\*                   <= n <= 25,
\* every record of the batch is of a media-bearing fetched message, at most
\* one per message, and a message is counted as processed only with its
\* record inserted (the converse does not hold).
C17_BatchCountChain ==
    \A t \in Tasks :
      LET s == tk[t] IN
      s.path = "multiple" =>
        /\ s.processed_count <= Cardinality(RecordsBy(t))
        /\ Cardinality(RecordsBy(t)) <= Cardinality(MediaBearingFetched(t))
        /\ Cardinality(MediaBearingFetched(t)) <= s.num_files
        /\ s.num_files <= MAX_FILES
        /\ \A k \in RecordsBy(t) : db[k].item \in MediaBearingFetched(t)
        /\ \A i \in 1..Len(s.items) :
             /\ Cardinality(RecordsOf(t, i)) <= 1
             /\ s.items[i].state = "ok" => RecordsOf(t, i) # {}
        /\ s.processed_count <=
             Cardinality({i \in 1..Len(s.items) : RecordsOf(t, i) # {}})

\* A finished batch of two media messages: both records were inserted, only
\* one of the messages was counted as processed.
C17_Witness ==
    \E t \in Tasks :
      /\ tk[t].path = "multiple"
      /\ tk[t].pc = "done"
      /\ tk[t].num_files = 2
      /\ Cardinality(MediaBearingFetched(t)) = 2
      /\ Cardinality(RecordsBy(t)) = 2
      /\ tk[t].processed_count = 1

\* ------------------------------------------------------------------ C18 ---
\* Handler invocation t went past step 5 of link_handler: it looked at the
\* reply target or the count, fetched messages or began an ingestion.
PastAdminCheck(t) ==
    LET s == tk[t] IN
    \/ s.pc \in {"parse", "get_messages", "loop", "summary"} \cup TryCallSet
    \/ s.path \in {"single", "multiple"}
    \/ s.text \in {"need_reply", "no_file", "bad_range", "not_int",
                   "fetch_failed", "summary"}
    \/ ~NothingIngested(t)

C19_ChannelHandler ==
    \A t \in Tasks :
      LET s == tk[t] IN
      message[t].handler = "channel" =>
        /\ \A i \in 1..Len(s.checks) :
             s.checks[i].name \in {"channel_banned", "channel_exist"}
        /\ Denied(t) =>
             /\ s.checks = <<[name |-> "channel_banned", result |-> "deny"]>>
             /\ s.pc = "done"
             /\ NothingIngested(t)
             /\ s.sent = <<>>
        /\ ~NothingIngested(t) =>
             s.checks = <<[name |-> "channel_banned", result |-> "pass"],
                          [name |-> "channel_exist", result |-> "pass"]>>
        /\ (s.pc = "send" \/ s.calls["send"] > 0) =>
             /\ InsertReturned(t)
             /\ \A c \in {"add_file", "get_file_ids", "gen_link"} :
                  s.calls[c] = 1
        /\ s.sent # <<>> =>
             /\ s.sent = <<Message("markup", s.inserted_id)>>
             /\ s.items = <<[state |-> "ok", inserts |-> 1]>>
             /\ \E k \in RecordsOf(t, 1) : db[k].id = s.inserted_id
             /\ s.pc = "done"

\* A media post of a channel that is not banned: its record was inserted
\* after the two channel checks only, and the markup of the post carries the
\* link of that record.
C19_Witness ==
    \E t \in Tasks :
      /\ message[t].handler = "channel"
      /\ Len(tk[t].checks) = 2
      /\ tk[t].pc = "done"
      /\ tk[t].sent = <<Message("markup", 1)>>
      /\ Cardinality(RecordsBy(t)) = 1

====
